---- MODULE Spec2Model ----
(***************************************************************************)
(* The NFTAuction escrow engine of contracts/MyNFT.sol, together with the  *)
(* part of the MyNFT token registry it calls (ownership, approval, pause). *)
(* One transaction is one step; a withdraw is split at its external        *)
(* payment so that a re-entrant call can be taken while it is in flight.   *)
(* Amounts are far below 2^256, so checked uint256 arithmetic never        *)
(* overflows inside the bounds and is modelled by the naturals; the one    *)
(* subtraction that could underflow is guarded as in the source.           *)
(***************************************************************************)
EXTENDS Integers, FiniteSets, Sequences, TLC

\* ---------------------------------------------------------------- bounds
MaxAuctions == 1
MaxTokens == 1
MaxBids == 3
MaxTime == 660
MaxAdminOps == 2
MaxCreations == 2

\* ------------------------------------------------------ program constants
FIVE_MINUTES == 300
MIN_INCREMENT_PERCENT == 5
FEE_DENOMINATOR == 1000
MAX_FEE_PERCENTAGE == 1000
INITIAL_FEE_PERCENTAGE == 25

\* ----------------------------------------------------------------- inputs
NoAddr == "0x0"
Engine == "engine"
Owner == "owner"
Users == {"owner", "seller", "alice"}
NftContract == "nft"
AuctionIds == 1..MaxAuctions
CreationIds == 1..MaxCreations
TokenIds == 0..(MaxTokens - 1)
StartingBids == {0, 10}
Durations == {0, 360, 600}
BidAmounts == {0, 5, 10, 100, 104, 105}
FeeRates == {1000, 1001}
TimeSteps == {300}

VARIABLES
    now,                  \* block.timestamp
    auctions,             \* mapping(uint256 => Auction)
    pendingReturns,       \* mapping(uint256 => mapping(address => uint256))
    auctionCounter,
    serviceFeePercentage,
    balance,              \* address(this).balance of the engine
    tokenOwner,           \* MyNFT: ownerOf, NoAddr when not minted
    tokenApproval,        \* MyNFT: getApproved
    operatorApproval,     \* MyNFT: owners with isApprovedForAll(owner, engine)
    nextTokenId,          \* MyNFT: _nextTokenId
    paused,               \* MyNFT: Pausable
    call,                 \* the withdraw whose payment is in flight, or NoCall
    deposited,            \* history: value ever deposited by bids, per auction
    paidToSeller,         \* history: value paid to the seller, per auction
    feeKept,              \* history: service fee retained at settlement
    refunded,             \* history: value paid out by withdraw, per auction
    feesWithdrawn,        \* history: value paid by withdrawServiceFees
    bidCount,             \* history: accepted bids, per auction
    settleCount,          \* history: successful endAuction/cancelAuction
    extended,             \* history: anti-sniping extensions, per auction
    adminOps              \* history: owner operations performed (bounded)

engineVars == <<auctions, pendingReturns, auctionCounter, serviceFeePercentage, balance>>
nftVars == <<tokenOwner, tokenApproval, operatorApproval, nextTokenId, paused>>
historyVars == <<deposited, paidToSeller, feeKept, refunded, feesWithdrawn,
                 bidCount, settleCount, extended, adminOps>>
vars == <<now, engineVars, nftVars, call, historyVars>>

ZeroAuction ==
    [seller |-> NoAddr, nftAddress |-> NoAddr, tokenId |-> 0, startingBid |-> 0,
     highestBid |-> 0, highestBidder |-> NoAddr, endTime |-> 0, ended |-> FALSE]

NoCall == [op |-> "none"]

RECURSIVE SumOver(_, _)
SumOver(f, S) ==
    IF S = {} THEN 0
    ELSE LET x == CHOOSE y \in S : TRUE IN f[x] + SumOver(f, S \ {x})

Init ==
    /\ now = 60                 \* the block in which the contracts are deployed
    /\ auctions = [a \in AuctionIds |-> ZeroAuction]
    /\ pendingReturns = [a \in AuctionIds |-> [u \in Users |-> 0]]
    /\ auctionCounter = 0
    /\ serviceFeePercentage = INITIAL_FEE_PERCENTAGE
    /\ balance = 0
    /\ tokenOwner = [t \in TokenIds |-> NoAddr]
    /\ tokenApproval = [t \in TokenIds |-> NoAddr]
    /\ operatorApproval = {}
    /\ nextTokenId = 0
    /\ paused = FALSE
    /\ call = NoCall
    /\ deposited = [a \in AuctionIds |-> 0]
    /\ paidToSeller = [a \in AuctionIds |-> 0]
    /\ feeKept = [a \in AuctionIds |-> 0]
    /\ refunded = [a \in AuctionIds |-> 0]
    /\ feesWithdrawn = 0
    /\ bidCount = [a \in AuctionIds |-> 0]
    /\ settleCount = [a \in AuctionIds |-> 0]
    /\ extended = [a \in AuctionIds |-> 0]
    /\ adminOps = 0

\* A reverted transaction changes nothing.
Revert == UNCHANGED vars

\* ------------------------------------------------- MyNFT (asset registry)
\* ERC721.transferFrom as called by the engine, through MyNFT._update
\* (whenNotPaused): the token exists, `from` owns it and the engine is the
\* owner, an approved operator or the approved address.
NftTransferOk(nft, from, to, t) ==
    /\ nft = NftContract
    /\ ~paused
    /\ to # NoAddr
    /\ t \in TokenIds
    /\ tokenOwner[t] # NoAddr
    /\ tokenOwner[t] = from
    /\ \/ tokenOwner[t] = Engine
       \/ tokenOwner[t] \in operatorApproval
       \/ tokenApproval[t] = Engine

\* mintNFT by the owner (who holds MINTER_ROLE); token ids count from 0.
MintNFT(recipient) ==
    /\ call = NoCall
    /\ ~paused
    /\ recipient # NoAddr
    /\ nextTokenId < MaxTokens
    /\ tokenOwner' = [tokenOwner EXCEPT ![nextTokenId] = recipient]
    /\ nextTokenId' = nextTokenId + 1
    /\ UNCHANGED <<now, engineVars, tokenApproval, operatorApproval, paused, call, historyVars>>

\* approve(engine, t) by the token's owner.
Approve(t) ==
    /\ call = NoCall
    /\ tokenOwner[t] \in Users
    /\ tokenApproval[t] # Engine
    /\ tokenApproval' = [tokenApproval EXCEPT ![t] = Engine]
    /\ UNCHANGED <<now, engineVars, tokenOwner, operatorApproval, nextTokenId, paused, call, historyVars>>

\* setApprovalForAll(engine, true) by a user.
SetApprovalForAll(who) ==
    /\ call = NoCall
    /\ who \notin operatorApproval
    /\ operatorApproval' = operatorApproval \cup {who}
    /\ UNCHANGED <<now, engineVars, tokenOwner, tokenApproval, nextTokenId, paused, call, historyVars>>

\* transferFrom(holder, engine, t) by the token's holder: a plain transfer to
\* the engine's address, outside any auction.
NftTransferToEngine(t) ==
    /\ call = NoCall
    /\ ~paused
    /\ tokenOwner[t] \in Users
    /\ tokenOwner' = [tokenOwner EXCEPT ![t] = Engine]
    /\ tokenApproval' = [tokenApproval EXCEPT ![t] = NoAddr]
    /\ UNCHANGED <<now, engineVars, operatorApproval, nextTokenId, paused, call, historyVars>>

\* pause() / unpause() by the owner (who holds PAUSER_ROLE).
Pause ==
    /\ call = NoCall
    /\ adminOps < MaxAdminOps
    /\ ~paused
    /\ paused' = TRUE
    /\ adminOps' = adminOps + 1
    /\ UNCHANGED <<now, engineVars, tokenOwner, tokenApproval, operatorApproval,
                   nextTokenId, call,
                   deposited, paidToSeller, feeKept, refunded, feesWithdrawn, bidCount,
                   settleCount, extended>>

Unpause ==
    /\ call = NoCall
    /\ paused
    /\ paused' = FALSE
    /\ UNCHANGED <<now, engineVars, tokenOwner, tokenApproval, operatorApproval,
                   nextTokenId, call,
                   historyVars>>

\* The clock: block.timestamp of the next transaction.
Tick(d) ==
    /\ call = NoCall
    /\ now + d <= MaxTime
    /\ now' = now + d
    /\ UNCHANGED <<engineVars, nftVars, call, historyVars>>

\* ------------------------------------------------------------ NFTAuction
\* Mutant: a zero starting bid is not refused.
CreateRequires_noStartingBidCheck(who, t, startingBid, durationSeconds) ==
    /\ durationSeconds > 0
    /\ t \in TokenIds
    /\ tokenOwner[t] # NoAddr
    /\ tokenOwner[t] = who
    /\ (who \in operatorApproval \/ tokenApproval[t] = Engine)
    /\ NftTransferOk(NftContract, who, Engine, t)

CreateRequires(who, t, startingBid, durationSeconds) ==
    /\ startingBid > 0
    /\ durationSeconds > 0
    /\ t \in TokenIds
    /\ tokenOwner[t] # NoAddr
    /\ tokenOwner[t] = who
    /\ (who \in operatorApproval \/ tokenApproval[t] = Engine)
    /\ NftTransferOk(NftContract, who, Engine, t)

\* Mutant: the counter is not advanced once an auction exists, so the latest
\* id is handed out again.
NewAuctionId_reused == IF auctionCounter = 0 THEN auctionCounter + 1 ELSE auctionCounter

\* auctionCounter++; auctionId = auctionCounter
NewAuctionId == auctionCounter + 1

\* The records modelled are those of the ids in DOMAIN auctions.
CreateAuction(who, t, startingBid, durationSeconds) ==
    /\ call = NoCall
    /\ auctionCounter + 1 \in DOMAIN auctions
    /\ IF CreateRequires(who, t, startingBid, durationSeconds)
       THEN LET auctionId == NewAuctionId IN
            /\ tokenOwner' = [tokenOwner EXCEPT ![t] = Engine]
            /\ tokenApproval' = [tokenApproval EXCEPT ![t] = NoAddr]
            /\ auctionCounter' = auctionId
            /\ auctions' = [auctions EXCEPT ![auctionId] =
                   [seller |-> who, nftAddress |-> NftContract, tokenId |-> t,
                    startingBid |-> startingBid, highestBid |-> 0,
                    highestBidder |-> NoAddr, endTime |-> now + durationSeconds,
                    ended |-> FALSE]]
            /\ UNCHANGED <<now, pendingReturns, serviceFeePercentage, balance,
                           operatorApproval, nextTokenId, paused, call, historyVars>>
       ELSE Revert

MinIncrement(highestBid) == (highestBid * MIN_INCREMENT_PERCENT) \div 100

\* Mutant: any first bid is taken.
FirstBidOk_any(a, value) == TRUE

\* Mutant: the first bid must exceed the starting bid.
FirstBidOk_strict(a, value) == value > auctions[a].startingBid

FirstBidOk(a, value) == value >= auctions[a].startingBid

\* Mutant: the ended flag is not checked.
BidRequires_noEndedCheck(a, who, value) ==
    /\ now < auctions[a].endTime
    /\ auctions[a].seller # who
    /\ IF auctions[a].highestBid = 0
       THEN value >= auctions[a].startingBid
       ELSE value >= auctions[a].highestBid
                        + (auctions[a].highestBid * MIN_INCREMENT_PERCENT) \div 100

\* Mutant: the deadline is not checked.
BidRequires_noDeadlineCheck(a, who, value) ==
    /\ ~auctions[a].ended
    /\ auctions[a].seller # who
    /\ IF auctions[a].highestBid = 0
       THEN value >= auctions[a].startingBid
       ELSE value >= auctions[a].highestBid
                        + (auctions[a].highestBid * MIN_INCREMENT_PERCENT) \div 100

\* Mutant: a bid at exactly the deadline is still taken.
BidRequires_deadlineInclusive(a, who, value) ==
    /\ ~auctions[a].ended
    /\ now <= auctions[a].endTime
    /\ auctions[a].seller # who
    /\ IF auctions[a].highestBid = 0
       THEN value >= auctions[a].startingBid
       ELSE value >= auctions[a].highestBid
                        + (auctions[a].highestBid * MIN_INCREMENT_PERCENT) \div 100

\* Mutant: the seller is not barred from bidding.
BidRequires_noSellerCheck(a, who, value) ==
    /\ ~auctions[a].ended
    /\ now < auctions[a].endTime
    /\ IF auctions[a].highestBid = 0
       THEN value >= auctions[a].startingBid
       ELSE value >= auctions[a].highestBid
                        + (auctions[a].highestBid * MIN_INCREMENT_PERCENT) \div 100

BidRequires(a, who, value) ==
    /\ ~auctions[a].ended
    /\ now < auctions[a].endTime
    /\ auctions[a].seller # who
    /\ IF auctions[a].highestBid = 0
       THEN FirstBidOk(a, value)
       ELSE value >= auctions[a].highestBid + MinIncrement(auctions[a].highestBid)

\* Mutant: the refund credits the incoming bid instead of the outbid one.
Refund_incoming(a, value) == value

\* The amount credited to the previous highest bidder.
Refund(a, value) == auctions[a].highestBid

\* Mutant: the credit overwrites an earlier uncollected one.
Credit_overwrite(entry, amount) == amount

\* pendingReturns[auctionId][auction.highestBidder] += auction.highestBid
Credit(entry, amount) == entry + amount

\* Mutant: the window includes exactly five minutes before the deadline.
Extends_inclusive(a) == auctions[a].endTime - now <= FIVE_MINUTES

Extends(a) == auctions[a].endTime - now < FIVE_MINUTES

\* Mutant: the deadline is reset to five minutes from the bid.
NextEndTime_fromNow(a) ==
    IF Extends(a) THEN now + FIVE_MINUTES ELSE auctions[a].endTime

\* Mutant: every bid sets the deadline to five minutes from the bid.
NextEndTime_unconditional(a) == now + FIVE_MINUTES

NextEndTime(a) ==
    IF Extends(a) THEN auctions[a].endTime + FIVE_MINUTES ELSE auctions[a].endTime

Bid(a, who, value) ==
    /\ call = NoCall
    /\ SumOver(bidCount, DOMAIN bidCount) < MaxBids
    /\ IF BidRequires(a, who, value)
       THEN LET prev == auctions[a].highestBidder IN
            /\ pendingReturns' =
                   IF prev # NoAddr
                   THEN [pendingReturns EXCEPT ![a][prev] = Credit(@, Refund(a, value))]
                   ELSE pendingReturns
            /\ auctions' = [auctions EXCEPT ![a].highestBid = value,
                                            ![a].highestBidder = who,
                                            ![a].endTime = NextEndTime(a)]
            /\ balance' = balance + value
            /\ deposited' = [deposited EXCEPT ![a] = @ + value]
            /\ bidCount' = [bidCount EXCEPT ![a] = @ + 1]
            /\ extended' = [extended EXCEPT ![a] = IF Extends(a) THEN @ + 1 ELSE @]
            /\ UNCHANGED <<now, auctionCounter, serviceFeePercentage, nftVars, call,
                           paidToSeller, feeKept, refunded, feesWithdrawn, settleCount, adminOps>>
       ELSE Revert

\* nonReentrant: a guarded function called while a guarded function is in
\* flight reverts.
ReentrancyGuardBlocks == call # NoCall

\* Mutant: the payment leaves half of the entry in place.
EntryDuringPayment_halved(amount) == amount \div 2

\* Mutant: the entry is not zeroed before the payment.
EntryDuringPayment_unzeroed(amount) == amount

\* pendingReturns[auctionId][msg.sender] as it stands while the payment runs.
EntryDuringPayment(amount) == 0

\* Mutant: an empty entry is not refused.
WithdrawRequires_noCheck(amount) == TRUE

WithdrawRequires(amount) == amount > 0

\* withdraw, up to and including the start of its external payment; the
\* value leaves the engine when the call starts.
WithdrawBegin(a, who) ==
    /\ call = NoCall
    /\ LET amount == pendingReturns[a][who] IN
       IF WithdrawRequires(amount) /\ balance >= amount
       THEN /\ pendingReturns' = [pendingReturns EXCEPT ![a][who] = EntryDuringPayment(amount)]
            /\ balance' = balance - amount
            /\ refunded' = [refunded EXCEPT ![a] = @ + amount]
            /\ call' = [op |-> "withdraw", id |-> a, caller |-> who, amount |-> amount,
                        nested |-> "none",
                        pre |-> [pendingReturns |-> pendingReturns, balance |-> balance,
                                 refunded |-> refunded]]
            /\ UNCHANGED <<now, auctions, auctionCounter, serviceFeePercentage, nftVars,
                           deposited, paidToSeller, feeKept, feesWithdrawn, bidCount,
                           settleCount, extended, adminOps>>
       ELSE Revert

\* The payee, a contract, calls withdraw(a2) again from its receive function.
\* The nested call's own payment is taken to return at once.
WithdrawNested(a2) ==
    /\ call # NoCall
    /\ call.op = "withdraw"
    /\ call.nested = "none"
    /\ LET who == call.caller
           amount == pendingReturns[a2][who] IN
       IF ~ReentrancyGuardBlocks /\ amount > 0 /\ balance >= amount
       THEN /\ pendingReturns' = [pendingReturns EXCEPT ![a2][who] = 0]
            /\ balance' = balance - amount
            /\ refunded' = [refunded EXCEPT ![a2] = @ + amount]
            /\ call' = [call EXCEPT !.nested = "paid"]
       ELSE /\ call' = [call EXCEPT !.nested = "reverted"]
            /\ UNCHANGED <<pendingReturns, balance, refunded>>
    /\ UNCHANGED <<now, auctions, auctionCounter, serviceFeePercentage, nftVars,
                   deposited, paidToSeller, feeKept, feesWithdrawn, bidCount,
                   settleCount, extended, adminOps>>

\* The payment returns: success ends the withdraw, failure reverts all of it.
WithdrawReturn(accept) ==
    /\ call # NoCall
    /\ call.op = "withdraw"
    /\ call' = NoCall
    /\ IF accept
       THEN UNCHANGED <<pendingReturns, balance, refunded>>
       ELSE /\ pendingReturns' = call.pre.pendingReturns
            /\ balance' = call.pre.balance
            /\ refunded' = call.pre.refunded
    /\ UNCHANGED <<now, auctions, auctionCounter, serviceFeePercentage, nftVars,
                   deposited, paidToSeller, feeKept, feesWithdrawn, bidCount,
                   settleCount, extended, adminOps>>

\* Mutant: the fee is rounded up.
ServiceFee_ceil(highestBid) ==
    (highestBid * serviceFeePercentage + FEE_DENOMINATOR - 1) \div FEE_DENOMINATOR

ServiceFee(highestBid) == (highestBid * serviceFeePercentage) \div FEE_DENOMINATOR

\* Mutant: the ended flag is not checked.
EndRequires_noEndedCheck(a, who) ==
    /\ (now >= auctions[a].endTime \/ who = Owner)
    /\ (who = auctions[a].seller \/ who = Owner)

\* Mutant: the deadline is not required of anyone.
EndRequires_noTimeCheck(a, who) ==
    /\ ~auctions[a].ended
    /\ (who = auctions[a].seller \/ who = Owner)

EndRequires(a, who) ==
    /\ ~auctions[a].ended
    /\ (now >= auctions[a].endTime \/ who = Owner)
    /\ (who = auctions[a].seller \/ who = Owner)

\* Mutant: without a bid the asset stays in the engine's custody.
NoBidRecipient_engine(a) == Engine

\* Who receives the asset when endAuction finds no bid.
NoBidRecipient(a) == auctions[a].seller

\* endAuction; `accept` is whether the seller's account accepts the payment.
EndAuction(a, who, accept) ==
    /\ call = NoCall
    /\ LET auction == auctions[a]
           serviceFee == ServiceFee(auction.highestBid)
           sellerAmount == auction.highestBid - serviceFee IN
       IF auction.highestBidder # NoAddr
       THEN IF /\ EndRequires(a, who)
               /\ NftTransferOk(auction.nftAddress, Engine, auction.highestBidder, auction.tokenId)
               /\ balance >= sellerAmount
               /\ accept
            THEN /\ auctions' = [auctions EXCEPT ![a].ended = TRUE]
                 /\ tokenOwner' = [tokenOwner EXCEPT ![auction.tokenId] = auction.highestBidder]
                 /\ tokenApproval' = [tokenApproval EXCEPT ![auction.tokenId] = NoAddr]
                 /\ balance' = balance - sellerAmount
                 /\ paidToSeller' = [paidToSeller EXCEPT ![a] = @ + sellerAmount]
                 /\ feeKept' = [feeKept EXCEPT ![a] = @ + serviceFee]
                 /\ settleCount' = [settleCount EXCEPT ![a] = @ + 1]
                 /\ UNCHANGED <<now, pendingReturns, auctionCounter, serviceFeePercentage,
                                operatorApproval, nextTokenId, paused, call, deposited,
                                refunded, feesWithdrawn, bidCount, extended, adminOps>>
            ELSE Revert
       ELSE IF /\ EndRequires(a, who)
               /\ NftTransferOk(auction.nftAddress, Engine, NoBidRecipient(a), auction.tokenId)
            THEN /\ auctions' = [auctions EXCEPT ![a].ended = TRUE]
                 /\ tokenOwner' = [tokenOwner EXCEPT ![auction.tokenId] = NoBidRecipient(a)]
                 /\ tokenApproval' = [tokenApproval EXCEPT ![auction.tokenId] = NoAddr]
                 /\ settleCount' = [settleCount EXCEPT ![a] = @ + 1]
                 /\ UNCHANGED <<now, pendingReturns, auctionCounter, serviceFeePercentage,
                                balance, operatorApproval, nextTokenId, paused, call,
                                deposited, paidToSeller, feeKept, refunded, feesWithdrawn,
                                bidCount, extended, adminOps>>
            ELSE Revert

\* Mutant: an auction with a bid may be cancelled.
CancelRequires_noBidCheck(a, who) ==
    /\ ~auctions[a].ended
    /\ (who = auctions[a].seller \/ who = Owner)

CancelRequires(a, who) ==
    /\ ~auctions[a].ended
    /\ (who = auctions[a].seller \/ who = Owner)
    /\ auctions[a].highestBidder = NoAddr

CancelAuction(a, who) ==
    /\ call = NoCall
    /\ LET auction == auctions[a] IN
       IF /\ CancelRequires(a, who)
          /\ NftTransferOk(auction.nftAddress, Engine, auction.seller, auction.tokenId)
       THEN /\ auctions' = [auctions EXCEPT ![a].ended = TRUE]
            /\ tokenOwner' = [tokenOwner EXCEPT ![auction.tokenId] = auction.seller]
            /\ tokenApproval' = [tokenApproval EXCEPT ![auction.tokenId] = NoAddr]
            /\ settleCount' = [settleCount EXCEPT ![a] = @ + 1]
            /\ UNCHANGED <<now, pendingReturns, auctionCounter, serviceFeePercentage,
                           balance, operatorApproval, nextTokenId, paused, call,
                           deposited, paidToSeller, feeKept, refunded, feesWithdrawn,
                           bidCount, extended, adminOps>>
       ELSE Revert

\* Mutant: any rate is taken.
FeeRateOk_unbounded(newFeePercentage) == TRUE

FeeRateOk(newFeePercentage) == newFeePercentage <= MAX_FEE_PERCENTAGE

UpdateServiceFeePercentage(who, newFeePercentage) ==
    /\ call = NoCall
    /\ adminOps < MaxAdminOps
    /\ IF who = Owner /\ FeeRateOk(newFeePercentage)
       THEN /\ serviceFeePercentage' = newFeePercentage
            /\ adminOps' = adminOps + 1
            /\ UNCHANGED <<now, auctions, pendingReturns, auctionCounter, balance,
                           nftVars, call, deposited, paidToSeller, feeKept, refunded,
                           feesWithdrawn, bidCount, settleCount, extended>>
       ELSE Revert

\* The amount withdrawServiceFees sends to the owner.
FeeWithdrawal == balance

WithdrawServiceFees(who) ==
    /\ call = NoCall
    /\ adminOps < MaxAdminOps
    /\ IF who = Owner /\ balance > 0
       THEN /\ balance' = balance - FeeWithdrawal
            /\ feesWithdrawn' = feesWithdrawn + FeeWithdrawal
            /\ adminOps' = adminOps + 1
            /\ UNCHANGED <<now, auctions, pendingReturns, auctionCounter,
                           serviceFeePercentage, nftVars, call, deposited, paidToSeller,
                           feeKept, refunded, bidCount, settleCount, extended>>
       ELSE Revert

Next ==
    \/ \E d \in TimeSteps : Tick(d)
    \/ \E u \in {"seller"} : MintNFT(u)
    \/ \E t \in TokenIds : Approve(t)
    \/ \E u \in {"seller"} : SetApprovalForAll(u)
    \/ \E t \in TokenIds : NftTransferToEngine(t)
    \/ Pause
    \/ Unpause
    \/ \E u \in Users, t \in TokenIds, sb \in StartingBids, dur \in Durations :
           CreateAuction(u, t, sb, dur)
    \/ \E a \in AuctionIds, u \in Users, v \in BidAmounts : Bid(a, u, v)
    \/ \E a \in AuctionIds, u \in Users : WithdrawBegin(a, u)
    \/ \E a \in AuctionIds : WithdrawNested(a)
    \/ \E accept \in BOOLEAN : WithdrawReturn(accept)
    \/ \E a \in AuctionIds, u \in Users, accept \in BOOLEAN : EndAuction(a, u, accept)
    \/ \E a \in AuctionIds, u \in Users : CancelAuction(a, u)
    \/ \E u \in Users, p \in FeeRates : UpdateServiceFeePercentage(u, p)
    \/ \E u \in Users : WithdrawServiceFees(u)

Spec == Init /\ [][Next]_vars

\* ------------------------------- settlement with its external calls exposed
\* endAuction and cancelAuction split at their external calls (the asset
\* transfer and the payment to the seller), so that a call back into the
\* engine can be taken while they are in flight.

\* Mutant: the ended flag is written after the external calls.
EndedDuringTransfer_late == FALSE

\* auction.ended as it stands while the external calls run.
EndedDuringTransfer == TRUE

\* Mutant: a failed external call leaves the auction records as written.
AuctionsAfterRevert_kept == auctions

\* The auction records after a failed external call: the transaction reverts.
AuctionsAfterRevert == call.pre.auctions

NestedKinds == {"endAuction", "cancelAuction", "bid"}

\* endAuction up to its first external call.
EndAuctionBegin(a, who) ==
    /\ call = NoCall
    /\ IF EndRequires(a, who)
       THEN /\ auctions' = [auctions EXCEPT ![a].ended = EndedDuringTransfer]
            /\ call' = [op |-> "endAuction", id |-> a, caller |-> who,
                        nested |-> "none", pre |-> [auctions |-> auctions]]
            /\ UNCHANGED <<now, pendingReturns, auctionCounter, serviceFeePercentage,
                           balance, nftVars, historyVars>>
       ELSE Revert

\* cancelAuction up to its external call.
CancelAuctionBegin(a, who) ==
    /\ call = NoCall
    /\ IF CancelRequires(a, who)
       THEN /\ auctions' = [auctions EXCEPT ![a].ended = EndedDuringTransfer]
            /\ call' = [op |-> "cancelAuction", id |-> a, caller |-> who,
                        nested |-> "none", pre |-> [auctions |-> auctions]]
            /\ UNCHANGED <<now, pendingReturns, auctionCounter, serviceFeePercentage,
                           balance, nftVars, historyVars>>
       ELSE Revert

\* The account being called (the seller's, as `who`) calls endAuction,
\* cancelAuction or bid on the same auction before it returns.
SettleNested(kind, who, value) ==
    /\ call # NoCall
    /\ call.op \in {"endAuction", "cancelAuction"}
    /\ call.nested = "none"
    /\ LET a == call.id
           requiresPass ==
               CASE kind = "endAuction" -> EndRequires(a, who)
                 [] kind = "cancelAuction" -> CancelRequires(a, who)
                 [] kind = "bid" -> BidRequires(a, who, value)
       IN IF ~ReentrancyGuardBlocks /\ requiresPass
          THEN /\ call' = [call EXCEPT !.nested = "entered"]
               /\ settleCount' = [settleCount EXCEPT ![a] =
                                      IF kind = "bid" THEN @ ELSE @ + 1]
               /\ bidCount' = [bidCount EXCEPT ![a] =
                                   IF kind = "bid" THEN @ + 1 ELSE @]
          ELSE /\ call' = [call EXCEPT !.nested = "reverted"]
               /\ UNCHANGED <<settleCount, bidCount>>
    /\ UNCHANGED <<now, engineVars, nftVars, deposited, paidToSeller, feeKept,
                   refunded, feesWithdrawn, extended, adminOps>>

\* endAuction from its external calls to its end; `accept` is whether the
\* seller's account accepts the payment.
EndAuctionReturn(accept) ==
    /\ call # NoCall
    /\ call.op = "endAuction"
    /\ call' = NoCall
    /\ LET a == call.id
           auction == auctions[a]
           serviceFee == ServiceFee(auction.highestBid)
           sellerAmount == auction.highestBid - serviceFee IN
       IF auction.highestBidder # NoAddr
       THEN IF /\ NftTransferOk(auction.nftAddress, Engine, auction.highestBidder, auction.tokenId)
               /\ balance >= sellerAmount
               /\ accept
            THEN /\ auctions' = [auctions EXCEPT ![a].ended = TRUE]
                 /\ tokenOwner' = [tokenOwner EXCEPT ![auction.tokenId] = auction.highestBidder]
                 /\ tokenApproval' = [tokenApproval EXCEPT ![auction.tokenId] = NoAddr]
                 /\ balance' = balance - sellerAmount
                 /\ paidToSeller' = [paidToSeller EXCEPT ![a] = @ + sellerAmount]
                 /\ feeKept' = [feeKept EXCEPT ![a] = @ + serviceFee]
                 /\ settleCount' = [settleCount EXCEPT ![a] = @ + 1]
                 /\ UNCHANGED <<now, pendingReturns, auctionCounter, serviceFeePercentage,
                                operatorApproval, nextTokenId, paused, deposited,
                                refunded, feesWithdrawn, bidCount, extended, adminOps>>
            ELSE /\ auctions' = AuctionsAfterRevert
                 /\ UNCHANGED <<now, pendingReturns, auctionCounter, serviceFeePercentage,
                                balance, nftVars, historyVars>>
       ELSE IF NftTransferOk(auction.nftAddress, Engine, NoBidRecipient(a), auction.tokenId)
            THEN /\ auctions' = [auctions EXCEPT ![a].ended = TRUE]
                 /\ tokenOwner' = [tokenOwner EXCEPT ![auction.tokenId] = NoBidRecipient(a)]
                 /\ tokenApproval' = [tokenApproval EXCEPT ![auction.tokenId] = NoAddr]
                 /\ settleCount' = [settleCount EXCEPT ![a] = @ + 1]
                 /\ UNCHANGED <<now, pendingReturns, auctionCounter, serviceFeePercentage,
                                balance, operatorApproval, nextTokenId, paused,
                                deposited, paidToSeller, feeKept, refunded, feesWithdrawn,
                                bidCount, extended, adminOps>>
            ELSE /\ auctions' = AuctionsAfterRevert
                 /\ UNCHANGED <<now, pendingReturns, auctionCounter, serviceFeePercentage,
                                balance, nftVars, historyVars>>

\* cancelAuction from its external call to its end.
CancelAuctionReturn ==
    /\ call # NoCall
    /\ call.op = "cancelAuction"
    /\ call' = NoCall
    /\ LET a == call.id
           auction == auctions[a] IN
       IF NftTransferOk(auction.nftAddress, Engine, auction.seller, auction.tokenId)
       THEN /\ auctions' = [auctions EXCEPT ![a].ended = TRUE]
            /\ tokenOwner' = [tokenOwner EXCEPT ![auction.tokenId] = auction.seller]
            /\ tokenApproval' = [tokenApproval EXCEPT ![auction.tokenId] = NoAddr]
            /\ settleCount' = [settleCount EXCEPT ![a] = @ + 1]
            /\ UNCHANGED <<now, pendingReturns, auctionCounter, serviceFeePercentage,
                           balance, operatorApproval, nextTokenId, paused,
                           deposited, paidToSeller, feeKept, refunded, feesWithdrawn,
                           bidCount, extended, adminOps>>
       ELSE /\ auctions' = AuctionsAfterRevert
            /\ UNCHANGED <<now, pendingReturns, auctionCounter, serviceFeePercentage,
                           balance, nftVars, historyVars>>

NextR ==
    \/ \E d \in TimeSteps : Tick(d)
    \/ \E u \in {"seller"} : MintNFT(u)
    \/ \E t \in TokenIds : Approve(t)
    \/ \E u \in {"seller"} : SetApprovalForAll(u)
    \/ \E t \in TokenIds : NftTransferToEngine(t)
    \/ Pause
    \/ Unpause
    \/ \E u \in Users, t \in TokenIds, sb \in StartingBids, dur \in Durations :
           CreateAuction(u, t, sb, dur)
    \/ \E a \in AuctionIds, u \in Users, v \in BidAmounts : Bid(a, u, v)
    \/ \E a \in AuctionIds, u \in Users : WithdrawBegin(a, u)
    \/ \E a \in AuctionIds : WithdrawNested(a)
    \/ \E accept \in BOOLEAN : WithdrawReturn(accept)
    \/ \E a \in AuctionIds, u \in Users : EndAuctionBegin(a, u)
    \/ \E a \in AuctionIds, u \in Users : CancelAuctionBegin(a, u)
    \/ \E k \in NestedKinds, v \in BidAmounts :
           SettleNested(k, auctions[call.id].seller, v)
    \/ \E accept \in BOOLEAN : EndAuctionReturn(accept)
    \/ CancelAuctionReturn
    \/ \E u \in Users, p \in FeeRates : UpdateServiceFeePercentage(u, p)
    \/ \E u \in Users : WithdrawServiceFees(u)

SpecR == Init /\ [][NextR]_vars

\* ---------------------------------------- successive auctions of one asset
\* The engine with room for MaxCreations auction records: creation, bidding
\* and settlement only, so that an asset can be auctioned again by whoever
\* holds it after the previous auction.
InitIds ==
    /\ now = 60
    /\ auctions = [a \in CreationIds |-> ZeroAuction]
    /\ pendingReturns = [a \in CreationIds |-> [u \in Users |-> 0]]
    /\ auctionCounter = 0
    /\ serviceFeePercentage = INITIAL_FEE_PERCENTAGE
    /\ balance = 0
    /\ tokenOwner = [t \in TokenIds |-> NoAddr]
    /\ tokenApproval = [t \in TokenIds |-> NoAddr]
    /\ operatorApproval = {}
    /\ nextTokenId = 0
    /\ paused = FALSE
    /\ call = NoCall
    /\ deposited = [a \in CreationIds |-> 0]
    /\ paidToSeller = [a \in CreationIds |-> 0]
    /\ feeKept = [a \in CreationIds |-> 0]
    /\ refunded = [a \in CreationIds |-> 0]
    /\ feesWithdrawn = 0
    /\ bidCount = [a \in CreationIds |-> 0]
    /\ settleCount = [a \in CreationIds |-> 0]
    /\ extended = [a \in CreationIds |-> 0]
    /\ adminOps = 0

NextIds ==
    \/ \E d \in TimeSteps : Tick(d)
    \/ \E u \in {"seller"} : MintNFT(u)
    \/ \E t \in TokenIds : Approve(t)
    \/ \E u \in Users, t \in TokenIds, sb \in StartingBids, dur \in Durations :
           CreateAuction(u, t, sb, dur)
    \/ \E a \in CreationIds, u \in Users, v \in BidAmounts : Bid(a, u, v)
    \/ \E a \in CreationIds, u \in Users, accept \in BOOLEAN : EndAuction(a, u, accept)
    \/ \E a \in CreationIds, u \in Users : CancelAuction(a, u)

SpecIds == InitIds /\ [][NextIds]_vars

\* ------------------------------------------------------------- properties
SumPending(a) == SumOver(pendingReturns[a], Users)

Escrowed(a) == IF auctions[a].ended THEN 0 ELSE auctions[a].highestBid

\* C1 as stated: for every auction, the pending returns, plus the highest bid
\* while the auction is not settled, plus what was paid to the seller and kept
\* as fee, equal the value ever deposited by bids.
C1_ConservationAsStated ==
    \A a \in AuctionIds :
        SumPending(a) + Escrowed(a) + paidToSeller[a] + feeKept[a] = deposited[a]

\* C1 amended: the same sum, plus the value already paid out to bidders by
\* withdraw, equals the value ever deposited by bids.
C1_Conservation ==
    \A a \in AuctionIds :
        SumPending(a) + Escrowed(a) + paidToSeller[a] + feeKept[a] + refunded[a]
            = deposited[a]

\* A settled auction with a paid seller, a retained fee, a refund paid out and
\* a refund still pending.
C1_Witness ==
    \E a \in AuctionIds :
        /\ auctions[a].ended
        /\ paidToSeller[a] > 0
        /\ feeKept[a] > 0
        /\ refunded[a] > 0
        /\ SumPending(a) > 0

\* C2: what withdrawServiceFees has paid the owner never exceeds the service
\* fees retained by endAuction, so it never includes bidders' pending returns
\* or an escrowed highest bid.
C2_OnlyFeesWithdrawn == feesWithdrawn <= SumOver(feeKept, AuctionIds)

\* C3: while the payment of withdraw(a) to a bidder is in flight, the bidder's
\* entry for a is zero, a nested withdraw by the payee does not pay, and the
\* bidder has been paid the pending amount exactly once.
C3_WithdrawReentrancy ==
    call # NoCall =>
        /\ pendingReturns[call.id][call.caller] = 0
        /\ call.nested # "paid"
        /\ refunded[call.id] = call.pre.refunded[call.id] + call.amount
        /\ balance = call.pre.balance - call.amount

\* A withdraw in flight whose payee has re-invoked withdraw and was refused.
C3_Witness ==
    /\ call # NoCall
    /\ call.amount > 0
    /\ call.nested = "reverted"

\* A step in which bid(a) by u with value v is accepted.
Accepted(a, u, v) == Bid(a, u, v) /\ bidCount'[a] = bidCount[a] + 1

\* C4: for every auction at most one endAuction or cancelAuction call ever
\* succeeds, and such a call on an ended auction changes nothing.
C4_SingleSettlement ==
    [][\A a \in AuctionIds :
          /\ settleCount'[a] <= 1
          /\ auctions[a].ended =>
                \A u \in Users :
                    /\ \A accept \in BOOLEAN : EndAuction(a, u, accept) => UNCHANGED vars
                    /\ CancelAuction(a, u) => UNCHANGED vars]_vars

\* A settled auction whose token is in the engine's custody again, so that
\* only the ended flag stands between a second call and a second settlement.
C4_Witness ==
    \E a \in AuctionIds :
        /\ auctions[a].ended
        /\ settleCount[a] = 1
        /\ tokenOwner[auctions[a].tokenId] = Engine

\* C5: once ended, an auction's record never changes again and every later
\* bid on it is rejected.
C5_EndedIsTerminal ==
    [][\A a \in AuctionIds :
          auctions[a].ended =>
              /\ auctions'[a] = auctions[a]
              /\ \A u \in Users, v \in BidAmounts : Bid(a, u, v) => UNCHANGED vars]_vars

\* An auction with a bid, ended by the operator before its deadline: only the
\* ended flag rejects a further bid.
C5_Witness ==
    \E a \in AuctionIds :
        /\ auctions[a].ended
        /\ auctions[a].highestBid > 0
        /\ now < auctions[a].endTime

CeilDiv(x, y) == (x + y - 1) \div y

\* C6: a bid on an auction that has a highest bid is accepted only if it is at
\* least highestBid + ceil(highestBid * 5 / 100).
C6_MinimumIncrementCeil ==
    [][\A a \in AuctionIds, u \in Users, v \in BidAmounts :
          (auctions[a].highestBid > 0 /\ Accepted(a, u, v)) =>
              v >= auctions[a].highestBid + CeilDiv(auctions[a].highestBid * 5, 100)]_vars

\* The first bid of a non-seller before the deadline is acceptable exactly
\* when it is at least the starting bid.
FirstBidAcceptance ==
    \A a \in AuctionIds, u \in Users, v \in BidAmounts :
        ( /\ auctions[a].seller # NoAddr
          /\ ~auctions[a].ended
          /\ auctions[a].highestBid = 0
          /\ u # auctions[a].seller
          /\ now < auctions[a].endTime )
        => (BidRequires(a, u, v) <=> v >= auctions[a].startingBid)

\* C7: on an auction with no bid yet, a bid from a non-seller before endTime
\* is accepted if and only if its amount is at least startingBid; once
\* accepted, highestBid is the amount and highestBidder the caller.
C7_FirstBidRule ==
    /\ []FirstBidAcceptance
    /\ [][\A a \in AuctionIds, u \in Users, v \in BidAmounts :
             (auctions[a].highestBid = 0 /\ Bid(a, u, v)) =>
                 IF /\ ~auctions[a].ended
                    /\ u # auctions[a].seller
                    /\ now < auctions[a].endTime
                    /\ v >= auctions[a].startingBid
                 THEN /\ auctions'[a].highestBid = v
                      /\ auctions'[a].highestBidder = u
                      /\ balance' = balance + v
                 ELSE UNCHANGED vars]_vars

\* A first bid accepted at exactly the starting bid.
C7_Witness ==
    \E a \in AuctionIds :
        /\ bidCount[a] = 1
        /\ auctions[a].highestBid = auctions[a].startingBid
        /\ auctions[a].highestBidder \in Users

\* C8: an accepted bid adds five minutes to endTime exactly when fewer than
\* five minutes remain, and leaves endTime alone otherwise.
C8_AntiSniping ==
    [][\A a \in AuctionIds, u \in Users, v \in BidAmounts :
          Accepted(a, u, v) =>
              auctions'[a].endTime =
                  IF auctions[a].endTime - now < 5 * 60
                  THEN auctions[a].endTime + 5 * 60
                  ELSE auctions[a].endTime]_vars

\* Two late bids in a row, each of which pushed the deadline.
C8_Witness == \E a \in AuctionIds : extended[a] >= 2

\* C9 as stated: an accepted bid 60 s before endTime = T moves endTime to
\* T - 60 + 300, and one 600 s before T leaves it at T.
C9_ExampleAsStated ==
    [][\A a \in AuctionIds, u \in Users, v \in BidAmounts :
          Accepted(a, u, v) =>
              /\ now = auctions[a].endTime - 60 =>
                     auctions'[a].endTime = auctions[a].endTime - 60 + 300
              /\ now = auctions[a].endTime - 600 =>
                     auctions'[a].endTime = auctions[a].endTime]_vars

\* C9 amended: an accepted bid 60 s before endTime = T moves endTime to
\* T + 300, and one 600 s before T leaves it at T.
C9_Example ==
    [][\A a \in AuctionIds, u \in Users, v \in BidAmounts :
          Accepted(a, u, v) =>
              /\ now = auctions[a].endTime - 60 =>
                     auctions'[a].endTime = auctions[a].endTime + 300
              /\ now = auctions[a].endTime - 600 =>
                     auctions'[a].endTime = auctions[a].endTime]_vars

\* Right after a first bid placed 60 s before the deadline: the deadline is
\* now 360 s away.
C9_Witness ==
    \E a \in AuctionIds :
        /\ bidCount[a] = 1
        /\ extended[a] = 1
        /\ auctions[a].endTime - now = 360

\* C10: no step decreases the endTime of an auction.
C10_MonotonicDeadline ==
    [][\A a \in AuctionIds : auctions'[a].endTime >= auctions[a].endTime]_vars

\* An auction whose deadline was extended by a bid and which was then settled.
C10_Witness ==
    \E a \in AuctionIds :
        /\ extended[a] >= 1
        /\ settleCount[a] = 1

\* C11: a bid by an auction's seller on that auction is rejected, whatever the
\* amount and the time, and changes nothing.
C11_NoSelfBid ==
    [][\A a \in AuctionIds, v \in BidAmounts :
          (auctions[a].seller \in Users /\ Bid(a, auctions[a].seller, v))
              => UNCHANGED vars]_vars

\* A live auction, before its deadline, on which others' bids were accepted
\* and where every amount offered would satisfy the amount rule.
C11_Witness ==
    \E a \in AuctionIds :
        /\ auctions[a].seller \in Users
        /\ ~auctions[a].ended
        /\ now < auctions[a].endTime
        /\ auctions[a].highestBid > 0
        /\ \E v \in BidAmounts :
               v >= auctions[a].highestBid + MinIncrement(auctions[a].highestBid)

\* C12 as stated: a withdraw on a nonzero entry, once it has completed, has
\* zeroed the entry and paid the caller the entry's amount.
C12_WithdrawAsStated ==
    [][(call # NoCall /\ call' = NoCall) =>
          /\ pendingReturns'[call.id][call.caller] = 0
          /\ balance' = call.pre.balance - call.amount]_vars

\* C12 amended: withdraw on a zero entry changes nothing; on a nonzero entry
\* it either changes nothing or zeroes the entry and sends exactly its amount;
\* when the payment is accepted only that entry and the held funds have
\* changed, and when the payment fails everything is as before the call.
C12_Withdraw ==
    [][/\ \A a \in AuctionIds, u \in Users :
             WithdrawBegin(a, u) =>
                 IF pendingReturns[a][u] = 0
                 THEN UNCHANGED vars
                 ELSE \/ UNCHANGED vars
                      \/ /\ pendingReturns' = [pendingReturns EXCEPT ![a][u] = 0]
                         /\ balance' = balance - pendingReturns[a][u]
                         /\ auctions' = auctions
       /\ WithdrawReturn(TRUE) =>
             /\ pendingReturns' =
                    [call.pre.pendingReturns EXCEPT ![call.id][call.caller] = 0]
             /\ balance' = call.pre.balance
                               - call.pre.pendingReturns[call.id][call.caller]
             /\ auctions' = auctions
       /\ WithdrawReturn(FALSE) =>
             /\ pendingReturns' = call.pre.pendingReturns
             /\ balance' = call.pre.balance
             /\ auctions' = auctions]_vars

\* A completed withdraw that paid one bidder while another bidder's entry is
\* still pending.
C12_Witness ==
    \E a \in AuctionIds :
        /\ call = NoCall
        /\ refunded[a] > 0
        /\ \E u \in Users : pendingReturns[a][u] > 0
        /\ \E u \in Users : u # auctions[a].seller /\ pendingReturns[a][u] = 0

\* A step in which endAuction(a) called by u succeeds.
Settled(a, u) ==
    /\ \E accept \in BOOLEAN : EndAuction(a, u, accept)
    /\ settleCount'[a] = settleCount[a] + 1

C14_SettlementWithBid ==
    [][\A a \in AuctionIds, u \in Users :
          (auctions[a].highestBidder # NoAddr /\ Settled(a, u)) =>
              LET hb == auctions[a].highestBid
                  fee == (hb * serviceFeePercentage) \div 1000
              IN /\ auctions'[a] = [auctions[a] EXCEPT !.ended = TRUE]
                 /\ tokenOwner[auctions[a].tokenId] = Engine
                 /\ tokenOwner'[auctions[a].tokenId] = auctions[a].highestBidder
                 /\ paidToSeller'[a] = paidToSeller[a] + (hb - fee)
                 /\ balance' = balance - (hb - fee)
                 /\ feeKept'[a] = feeKept[a] + fee
                 /\ pendingReturns' = pendingReturns]_vars

\* An auction settled at 105 with the initial rate of 2.5%: the fee is
\* floor(2.625) = 2 and the seller got 103.
C14_Witness ==
    \E a \in AuctionIds :
        /\ auctions[a].ended
        /\ auctions[a].highestBid = 105
        /\ feeKept[a] = 2
        /\ paidToSeller[a] = 103
        /\ tokenOwner[auctions[a].tokenId] = auctions[a].highestBidder

\* C15: a successful endAuction on an auction without a bid sets ended,
\* returns the asset to the seller and moves no funds: the balance and every
\* pending return stay as they were.
C15_SettlementWithoutBid ==
    [][\A a \in AuctionIds, u \in Users :
          (auctions[a].highestBidder = NoAddr /\ Settled(a, u)) =>
              /\ auctions'[a] = [auctions[a] EXCEPT !.ended = TRUE]
              /\ tokenOwner'[auctions[a].tokenId] = auctions[a].seller
              /\ balance' = balance
              /\ pendingReturns' = pendingReturns
              /\ paidToSeller' = paidToSeller
              /\ feeKept' = feeKept]_vars

\* An auction that ran past its deadline without a bid and was ended, the
\* asset back with the seller.
C15_Witness ==
    \E a \in AuctionIds :
        /\ auctions[a].ended
        /\ auctions[a].highestBidder = NoAddr
        /\ now >= auctions[a].endTime
        /\ settleCount[a] = 1
        /\ tokenOwner[auctions[a].tokenId] = auctions[a].seller

\* A step in which cancelAuction(a) called by u succeeds.
Cancelled(a, u) == CancelAuction(a, u) /\ settleCount'[a] = settleCount[a] + 1

\* C16: cancelAuction succeeds only on a not-ended auction without a bid and
\* only for the seller or the operator; it then sets ended and returns the
\* asset to the seller; on an auction that has a bid it changes nothing,
\* whoever calls.
C16_CancelAuction ==
    [][\A a \in AuctionIds, u \in Users :
          /\ Cancelled(a, u) =>
                 /\ ~auctions[a].ended
                 /\ (u = auctions[a].seller \/ u = Owner)
                 /\ auctions[a].highestBidder = NoAddr
                 /\ bidCount[a] = 0
                 /\ auctions'[a] = [auctions[a] EXCEPT !.ended = TRUE]
                 /\ tokenOwner'[auctions[a].tokenId] = auctions[a].seller
                 /\ balance' = balance
                 /\ pendingReturns' = pendingReturns
          /\ ( /\ CancelAuction(a, u)
               /\ \/ bidCount[a] > 0
                  \/ auctions[a].ended
                  \/ (u # auctions[a].seller /\ u # Owner) )
                 => UNCHANGED vars]_vars

\* An auction cancelled before its deadline, the asset back with the seller;
\* no bid was ever placed on it.
C16_Witness ==
    \E a \in AuctionIds :
        /\ auctions[a].ended
        /\ bidCount[a] = 0
        /\ now < auctions[a].endTime
        /\ settleCount[a] = 1
        /\ tokenOwner[auctions[a].tokenId] = auctions[a].seller

\* A step in which createAuction by u succeeds.
Created(u, t, sb, dur) ==
    CreateAuction(u, t, sb, dur) /\ auctionCounter' = auctionCounter + 1

\* C17: createAuction succeeds only with startingBid > 0, duration > 0, the
\* caller owning the asset and having authorized the engine; it then puts the
\* asset in the engine's custody and records a new auction with seller =
\* caller, endTime = now + duration, no bid and ended = false. When a
\* precondition fails nothing changes: no custody transfer, no record, same
\* counter.
C17_CreateAuction ==
    [][\A u \in Users, t \in TokenIds, sb \in StartingBids, dur \in Durations :
          /\ Created(u, t, sb, dur) =>
                 /\ sb > 0
                 /\ dur > 0
                 /\ tokenOwner[t] = u
                 /\ (u \in operatorApproval \/ tokenApproval[t] = Engine)
                 /\ tokenOwner'[t] = Engine
                 /\ auctions'[auctionCounter'] =
                        [seller |-> u, nftAddress |-> NftContract, tokenId |-> t,
                         startingBid |-> sb, highestBid |-> 0,
                         highestBidder |-> NoAddr, endTime |-> now + dur,
                         ended |-> FALSE]
                 /\ \A b \in AuctionIds \ {auctionCounter'} : auctions'[b] = auctions[b]
                 /\ balance' = balance
                 /\ pendingReturns' = pendingReturns
          /\ ( /\ CreateAuction(u, t, sb, dur)
               /\ \/ sb = 0
                  \/ dur = 0
                  \/ tokenOwner[t] # u
                  \/ (u \notin operatorApproval /\ tokenApproval[t] # Engine) )
                 => UNCHANGED vars]_vars

\* A freshly created auction: the engine holds the asset, no bid, not ended,
\* the whole duration still ahead.
C17_Witness ==
    \E a \in AuctionIds :
        /\ auctionCounter = a
        /\ auctions[a].seller \in Users
        /\ tokenOwner[auctions[a].tokenId] = Engine
        /\ auctions[a].highestBid = 0
        /\ auctions[a].highestBidder = NoAddr
        /\ ~auctions[a].ended
        /\ auctions[a].endTime - now \in Durations \ {0}

\* C18: the fee rate never exceeds MAX_FEE_PERCENTAGE (1000), so the fee of a
\* settlement never exceeds the highest bid; updateServiceFeePercentage sets
\* the rate only for the owner and only to a value of at most 1000, and
\* otherwise changes nothing.
C18_FeeRateBound ==
    /\ [](/\ serviceFeePercentage <= 1000
          /\ \A a \in AuctionIds :
                 /\ ServiceFee(auctions[a].highestBid) <= auctions[a].highestBid
                 /\ feeKept[a] <= auctions[a].highestBid)
    /\ [][\A u \in Users, p \in FeeRates :
             UpdateServiceFeePercentage(u, p) =>
                 IF u = Owner /\ p <= 1000
                 THEN /\ serviceFeePercentage' = p
                      /\ auctions' = auctions
                      /\ pendingReturns' = pendingReturns
                      /\ balance' = balance
                 ELSE UNCHANGED vars]_vars

\* The rate at its maximum and an auction settled under it: the whole highest
\* bid was kept as fee and the seller was paid nothing.
C18_Witness ==
    /\ serviceFeePercentage = MAX_FEE_PERCENTAGE
    /\ \E a \in AuctionIds :
           /\ auctions[a].ended
           /\ auctions[a].highestBid > 0
           /\ feeKept[a] = auctions[a].highestBid
           /\ paidToSeller[a] = 0

\* C19: endAuction and cancelAuction leave every pending return as it is, and
\* after the auction has ended the engine still holds enough to pay each
\* nonzero entry in full, so the bidder's withdraw goes through.
C19_PendingReturnsOutlive ==
    /\ [](\A a \in AuctionIds, u \in Users :
             (call = NoCall /\ auctions[a].ended /\ pendingReturns[a][u] > 0)
                 => balance >= pendingReturns[a][u])
    /\ [][\A a \in AuctionIds, u \in Users :
             (Settled(a, u) \/ Cancelled(a, u)) => pendingReturns' = pendingReturns]_vars

\* C20: a bid on an auction id that was never created, on an ended auction, or
\* at or after endTime (also at exactly endTime) is rejected and changes
\* nothing.
C20_BidPreconditions ==
    [][\A a \in AuctionIds, u \in Users, v \in BidAmounts :
          ( /\ Bid(a, u, v)
            /\ \/ a > auctionCounter
               \/ auctions[a].ended
               \/ now >= auctions[a].endTime )
              => UNCHANGED vars]_vars

\* A live auction at exactly its deadline, with a standing bid that the
\* largest amount offered would beat.
C20_Witness ==
    \E a \in AuctionIds :
        /\ auctions[a].seller \in Users
        /\ ~auctions[a].ended
        /\ now = auctions[a].endTime
        /\ auctions[a].highestBid = 10

\* C21: an accepted bid on an auction that has a highest bidder adds the
\* previous highestBid to that bidder's pending return, on top of any earlier
\* credit and also when the bidder outbids themself; no other entry changes.
C21_OutbidCredit ==
    [][\A a \in AuctionIds, u \in Users, v \in BidAmounts :
          (auctions[a].highestBidder # NoAddr /\ Accepted(a, u, v)) =>
              pendingReturns' =
                  [pendingReturns EXCEPT ![a][auctions[a].highestBidder] =
                       pendingReturns[a][auctions[a].highestBidder]
                           + auctions[a].highestBid]]_vars

\* A bidder who outbid themself (credit 10) and was then outbid by another
\* (credit 100 on top): the entry is 110.
C21_Witness ==
    \E a \in AuctionIds, u \in Users :
        /\ pendingReturns[a][u] = 110
        /\ bidCount[a] = 3
        /\ auctions[a].highestBidder # u

\* C22: an entry grows only in an accepted bid that outbids its holder, by the
\* holder's previous highestBid (or by the undoing of a failed withdraw), and
\* shrinks only by being zeroed in the holder's own withdraw, which sends the
\* holder that amount; the standing highest bid is in no pending return, so
\* pending and collected returns are the deposits less the standing bid.
C22_PendingReturnsFrame ==
    /\ [](\A a \in AuctionIds :
             ~auctions[a].ended =>
                 SumPending(a) + refunded[a] = deposited[a] - auctions[a].highestBid)
    /\ [][\A a \in AuctionIds, b \in Users :
             /\ pendingReturns'[a][b] > pendingReturns[a][b] =>
                    \/ /\ \E u \in Users, v \in BidAmounts : Accepted(a, u, v)
                       /\ auctions[a].highestBidder = b
                       /\ pendingReturns'[a][b] =
                              pendingReturns[a][b] + auctions[a].highestBid
                    \/ /\ WithdrawReturn(FALSE)
                       /\ call.id = a
                       /\ call.caller = b
                       /\ pendingReturns' = call.pre.pendingReturns
                       /\ balance' = call.pre.balance
             /\ pendingReturns'[a][b] < pendingReturns[a][b] =>
                    /\ WithdrawBegin(a, b)
                    /\ pendingReturns'[a][b] = 0
                    /\ balance' = balance - pendingReturns[a][b]
                    /\ refunded'[a] = refunded[a] + pendingReturns[a][b]]_vars

\* An outbid bidder collected an earlier credit of 10 and holds a new one of
\* 100, while the highest bidder, whose bid stands, has nothing pending.
C22_Witness ==
    \E a \in AuctionIds, u \in Users :
        /\ call = NoCall
        /\ ~auctions[a].ended
        /\ refunded[a] = 10
        /\ pendingReturns[a][u] = 100
        /\ auctions[a].highestBidder \in Users \ {u}
        /\ pendingReturns[a][auctions[a].highestBidder] = 0

\* C26: in every existing auction highestBid is 0 exactly when there is no
\* highest bidder, and exactly when no bid was ever accepted on it.
C26_NoBidState ==
    \A a \in AuctionIds :
        a <= auctionCounter =>
            /\ (auctions[a].highestBid = 0 <=> auctions[a].highestBidder = NoAddr)
            /\ (auctions[a].highestBid = 0 <=> bidCount[a] = 0)
            /\ (bidCount[a] = 0 <=> deposited[a] = 0)

\* An auction settled after two or more accepted bids; bids of zero were
\* among the amounts offered to it.
C26_Witness ==
    \E a \in AuctionIds :
        /\ a <= auctionCounter
        /\ auctions[a].ended
        /\ bidCount[a] >= 2
        /\ auctions[a].highestBid > 0
        /\ auctions[a].highestBidder \in Users

\* C27: the engine always holds at least the sum of all pending returns plus
\* the highest bid of every auction that is not ended.
C27_Solvency ==
    balance >= SumOver([a \in AuctionIds |-> SumPending(a) + Escrowed(a)], AuctionIds)

\* C29: every accepted bid on an auction that has a highest bid is strictly
\* greater than that highest bid.
C29_StrictlyRisingBids ==
    [][\A a \in AuctionIds, u \in Users, v \in BidAmounts :
          (auctions[a].highestBid > 0 /\ Accepted(a, u, v))
              => v > auctions[a].highestBid]_vars

C28_SettlementNotBlocked ==
    \A a \in AuctionIds :
        (call = NoCall /\ a <= auctionCounter /\ ~auctions[a].ended
           /\ now >= auctions[a].endTime) =>
            /\ EndRequires(a, auctions[a].seller)
            /\ EndRequires(a, Owner)
            /\ IF auctions[a].highestBidder # NoAddr
               THEN /\ NftTransferOk(auctions[a].nftAddress, Engine,
                                     auctions[a].highestBidder, auctions[a].tokenId)
                    /\ balance >= auctions[a].highestBid
                                      - ServiceFee(auctions[a].highestBid)
               ELSE NftTransferOk(auctions[a].nftAddress, Engine,
                                  auctions[a].seller, auctions[a].tokenId)

\* C23: while endAuction or cancelAuction is at its external calls the ended
\* flag is already set, so a call back into the engine on the same auction
\* (endAuction, cancelAuction, bid) is refused; no auction is settled twice
\* and no seller is paid more than the highest bid less the fee, once.
C23_CommitBeforeCall ==
    /\ (call # NoCall /\ call.op \in {"endAuction", "cancelAuction"}) =>
           /\ auctions[call.id].ended
           /\ call.nested # "entered"
           /\ \A u \in Users, v \in BidAmounts :
                  /\ ~EndRequires(call.id, u)
                  /\ ~CancelRequires(call.id, u)
                  /\ ~BidRequires(call.id, u, v)
           /\ settleCount[call.id] = 0
           /\ paidToSeller[call.id] = 0
    /\ \A a \in AuctionIds :
           /\ settleCount[a] <= 1
           /\ paidToSeller[a] + feeKept[a] \in {0, auctions[a].highestBid}

\* endAuction on an auction with a bid, at its external calls, where the
\* account called has tried to re-enter the engine and was refused.
C23_Witness ==
    /\ call # NoCall
    /\ call.op = "endAuction"
    /\ call.nested = "reverted"
    /\ auctions[call.id].highestBidder # NoAddr

\* The state is as it was before the call in flight began; the asset of an
\* existing auction is still in the engine's custody.
RolledBack ==
    /\ auctions' = call.pre.auctions
    /\ ~auctions'[call.id].ended
    /\ call.id <= auctionCounter => tokenOwner'[auctions[call.id].tokenId] = Engine
    /\ UNCHANGED <<pendingReturns, balance, auctionCounter, serviceFeePercentage,
                   nftVars, deposited, paidToSeller, feeKept, refunded,
                   feesWithdrawn, settleCount>>

\* C24: when the payment in withdraw fails, or the asset transfer or the
\* payment to the seller in endAuction or cancelAuction fails, the operation
\* ends with everything as before the call: the entry keeps its amount, ended
\* is false, the asset is in the engine's custody and no funds have moved.
C24_RollbackOnFailure ==
    [][/\ WithdrawReturn(FALSE) =>
              /\ pendingReturns' = call.pre.pendingReturns
              /\ pendingReturns'[call.id][call.caller] = call.amount
              /\ balance' = call.pre.balance
              /\ refunded' = call.pre.refunded
              /\ UNCHANGED <<auctions, nftVars>>
       /\ \A accept \in BOOLEAN :
              ( /\ EndAuctionReturn(accept)
                /\ LET auction == auctions[call.id] IN
                   IF auction.highestBidder # NoAddr
                   THEN \/ ~accept
                        \/ balance < auction.highestBid - ServiceFee(auction.highestBid)
                        \/ ~NftTransferOk(auction.nftAddress, Engine,
                                          auction.highestBidder, auction.tokenId)
                   ELSE ~NftTransferOk(auction.nftAddress, Engine,
                                       auction.seller, auction.tokenId) )
                  => RolledBack
       /\ ( /\ CancelAuctionReturn
            /\ ~NftTransferOk(auctions[call.id].nftAddress, Engine,
                              auctions[call.id].seller, auctions[call.id].tokenId) )
              => RolledBack]_vars

\* endAuction on an auction with a bid, at its external calls, with the asset
\* registry paused: the asset transfer is about to fail.
C24_Witness ==
    /\ call # NoCall
    /\ call.op = "endAuction"
    /\ paused
    /\ auctions[call.id].highestBidder # NoAddr
    /\ auctions[call.id].ended

\* C25: ids are handed out as 1, 2, ... in creation order: a creation step
\* either raises the counter by one and writes exactly the record of the new
\* counter value, until then empty, or changes nothing; no step lowers the
\* counter or changes the seller, asset or startingBid of an existing record;
\* records above the counter are empty.
C25_AuctionIds ==
    /\ [](\A a \in CreationIds :
             /\ a > auctionCounter => auctions[a] = ZeroAuction
             /\ a <= auctionCounter => auctions[a].seller \in Users)
    /\ [][/\ auctionCounter' \in {auctionCounter, auctionCounter + 1}
          /\ \A a \in CreationIds :
                 a <= auctionCounter =>
                     /\ auctions'[a].seller = auctions[a].seller
                     /\ auctions'[a].nftAddress = auctions[a].nftAddress
                     /\ auctions'[a].tokenId = auctions[a].tokenId
                     /\ auctions'[a].startingBid = auctions[a].startingBid
          /\ \A u \in Users, t \in TokenIds, sb \in StartingBids, dur \in Durations :
                 CreateAuction(u, t, sb, dur) =>
                     \/ UNCHANGED vars
                     \/ /\ auctionCounter' = auctionCounter + 1
                        /\ auctions[auctionCounter'] = ZeroAuction
                        /\ auctions'[auctionCounter'].seller = u
                        /\ \A b \in CreationIds \ {auctionCounter'} :
                               auctions'[b] = auctions[b]]_vars

\* Two auctions of the same asset, the second created by the winner of the
\* first: ids 1 and 2, different sellers, the first record still in place.
C25_Witness ==
    /\ auctionCounter = 2
    /\ auctions[1].ended
    /\ auctions[1].seller = "seller"
    /\ auctions[2].seller \in Users \ {"seller"}
    /\ auctions[2].tokenId = auctions[1].tokenId

====
